---- MODULE Spec2Model ----
(***************************************************************************)
(* Polymer/polytool: the streaming build pipeline.                         *)
(*                                                                         *)
(*  - WritableAsyncIterable and AsyncTransformStream (build/streams.ts):   *)
(*    the mailbox between the push side (_transform / _flush) and the      *)
(*    pull side (the async iterator handed to _transformIter).             *)
(*  - build() (build/build.ts): the promise graph that joins the two       *)
(*    branches, the service worker config and the post-processing.         *)
(*                                                                         *)
(* Every synchronous run of JavaScript between two suspension points is    *)
(* one action.  Promise reactions of the stream part are interleaved       *)
(* freely; those of build() are run from a FIFO job queue.                 *)
(***************************************************************************)
EXTENDS Integers, Sequences, FiniteSets, TLC

\* ---- bounds ----
MaxWrites == 3      \* number of _transform calls explored
MaxItem == 2        \* input chunks are drawn from 1..MaxItem
MaxFlushes == 2     \* number of _flush calls explored when the caller is unconstrained

MaxFiles == 2       \* number of files the analyzed build stream emits
ForkBuffer == 1     \* files a fork holds before the source is held back
MaxStreams == 2     \* distinct streams handed to pipeStreams
MaxList == 2        \* length of the lists handed to pipeStreams

Items == 1..MaxItem

\* the behaviours of the abstract _transformIter that are explored
Modes == {"identity", "raising", "early"}

\* IteratorResult<V>
Result(v) == [done |-> FALSE, value |-> v]
DoneMarker == [done |-> TRUE, value |-> 0]
NoValue == [done |-> FALSE, value |-> 0]
NoError == <<"none", "none">>

VARIABLES
  \* WritableAsyncIterable
  blockedOn,        \* TRUE while a Deferred is stored in this.blockedOn
  backlog,          \* sequence of [value, deferred]
  closed,           \* this._closed
  deferreds,        \* the Deferreds made by _write: [resolves, close]
  cur,              \* `value` of the iterator: shifted, or what blockedOn resolved with
  \* AsyncTransformStream
  initialized,      \* this._initialized
  writingFinished,  \* this._writingFinished is resolved
  mode,             \* which _transformIter the subclass supplies
  cpc,              \* position of the transform loop started by _initializeOnce
  writeProm,        \* per _transform call: state of the promise of write()
  transformCb,      \* per _transform call: what its callback was called with
  closeProm,        \* per _flush call: state of the promise of close()
  flushPc,          \* per _flush call: position in _flush
  flushCb,          \* per _flush call: what its callback was called with
  thrown,           \* the error _transformIter has thrown
  errorEvents,      \* the 'error' events emitted
  \* history
  written,          \* chunks accepted by write(), in order
  pulls,            \* number of times the iterator asked for a value
  pulled,           \* IteratorResults the iterator obtained, in order
  yielded,          \* values yielded by _transformIter
  pushed            \* values handed to this.push

svars == <<blockedOn, backlog, closed, deferreds, cur, initialized,
           writingFinished, mode, cpc, writeProm, transformCb, closeProm,
           flushPc, flushCb, thrown, errorEvents, written, pulls, pulled,
           yielded, pushed>>

\* ---- build(): the promise graph of build.ts ----
VARIABLES
  streamEv,         \* per branch: the event the terminal stream has emitted
  waitForP,         \* per branch: the promise of waitFor(phase)
  loadSWConfig,     \* the promise of parsePreCacheConfig(...)
  logThen,          \* the promise derived by loadSWConfig.then(...) at line 129
  phaseAll,         \* per branch: Promise.all([loadSWConfig, waitFor(phase)])
  allSeen,          \* per branch: the inputs of phaseAll seen fulfilled
  swCalls,          \* the calls of addServiceWorker, in order
  swPromise,        \* per branch: the promise returned by addServiceWorker
  postProcessing,   \* per branch: unbundledPostProcessing / bundledPostProcessing
  finalAll,         \* Promise.all([unbundledPostProcessing, bundledPostProcessing])
  finalSeen,        \* the inputs of finalAll seen fulfilled
  buildPromise,     \* the promise returned by build()
  logged,           \* 'Build complete!' was logged
  rejections,       \* the branches whose post-processing was rejected, in order
  jobs              \* the promise reaction jobs, first in first out

bvars == <<streamEv, waitForP, loadSWConfig, logThen, phaseAll, allSeen,
           swCalls, swPromise, postProcessing, finalAll, finalSeen,
           buildPromise, logged, rejections, jobs>>

\* ---- build(): the streams of build.ts ----
VARIABLES
  srcCount,         \* files buildStream has emitted; they are 1..srcCount
  srcState,         \* buildStream: "flowing", "ended" or "error"
  forkBuf,          \* per branch: files waiting in forkStream(buildStream)
  received,         \* per branch: files that came out of its fork, in order
  stageErr          \* per branch: a stage before the terminal one emitted 'error'

pvars == <<srcCount, srcState, forkBuf, received, stageErr>>

\* ---- pipeStreams() and BuildCommand.run() ----
VARIABLES
  streamsArg,       \* the argument of pipeStreams
  pipeResult,       \* what pipeStreams did: [called, threw, ret, pipes]
  cliOptions,       \* the options BuildCommand.run was given
  branchStages      \* per branch: the stages build() has piped together

uvars == <<streamsArg, pipeResult, cliOptions, branchStages>>

vars == <<svars, bvars, pvars, uvars>>

SetAt(s, i, x) == [s EXCEPT ![i] = x]

InitStream ==
  /\ blockedOn = FALSE
  /\ backlog = <<>>
  /\ closed = FALSE
  /\ deferreds = <<>>
  /\ cur = NoValue
  /\ initialized = FALSE
  /\ writingFinished = FALSE
  /\ mode \in Modes
  /\ cpc = "unstarted"
  /\ writeProm = <<>>
  /\ transformCb = <<>>
  /\ closeProm = <<>>
  /\ flushPc = <<>>
  /\ flushCb = <<>>
  /\ thrown = NoError
  /\ errorEvents = <<>>
  /\ written = <<>>
  /\ pulls = 0
  /\ pulled = <<>>
  /\ yielded = <<>>
  /\ pushed = <<>>

Branches == {"unbundled", "bundled"}
\* a promise: its state and, once settled, <<"value", v>> or <<error, origin>>
Pending == [state |-> "pending", val |-> <<"none", "none">>]
Fulfilled(v) == [state |-> "fulfilled", val |-> <<"value", v>>]
Rejected(e) == [state |-> "rejected", val |-> e]
NotCalled == [state |-> "none", val |-> <<"none", "none">>]

\* build() has run up to `await Promise.all([...])`: every promise is pending
InitBuild ==
  /\ streamEv = [b \in Branches |-> "none"]
  /\ waitForP = [b \in Branches |-> Pending]
  /\ loadSWConfig = Pending
  /\ logThen = Pending
  /\ phaseAll = [b \in Branches |-> Pending]
  /\ allSeen = [b \in Branches |-> {}]
  /\ swCalls = <<>>
  /\ swPromise = [b \in Branches |-> NotCalled]
  /\ postProcessing = [b \in Branches |-> Pending]
  /\ finalAll = Pending
  /\ finalSeen = {}
  /\ buildPromise = Pending
  /\ logged = FALSE
  /\ rejections = <<>>
  /\ jobs = <<>>

\* buildStream has emitted nothing yet and no stage has failed
InitPipe ==
  /\ srcCount = 0
  /\ srcState = "flowing"
  /\ forkBuf = [b \in Branches |-> <<>>]
  /\ received = [b \in Branches |-> <<>>]
  /\ stageErr = [b \in Branches |-> FALSE]

\* a JavaScript object: a function from its property names to their values
GetField(obj, f) == IF f \in DOMAIN obj THEN obj[f] ELSE "undefined"
Truthy(v) == v \notin {"undefined", "false"}

NotPiped == [called |-> FALSE, threw |-> FALSE, ret |-> 0, pipes |-> <<>>]
NotBuilt == [run |-> FALSE, built |-> FALSE, unbundled |-> <<>>, bundled |-> <<>>]
NoOptions == [f \in {"insert-prefetch-links", "env"} |-> "undefined"]

\* neither pipeStreams nor BuildCommand.run is called
InitIdle ==
  /\ streamsArg = <<>>
  /\ pipeResult = NotPiped
  /\ cliOptions = NoOptions
  /\ branchStages = NotBuilt

\* ---- WritableAsyncIterable ----

\* mutant of _write: the value is put at the front of the backlog (unshift)
_write_unshift(value, owner) ==
  IF blockedOn
    THEN /\ cur' = value
         /\ blockedOn' = FALSE
         /\ UNCHANGED <<backlog, deferreds>>
    ELSE /\ deferreds' = Append(deferreds, [resolves |-> 0, close |-> owner])
         /\ backlog' = <<[value |-> value, deferred |-> Len(deferreds) + 1]>> \o backlog
         /\ UNCHANGED <<blockedOn, cur>>

\* mutant of _write: this.blockedOn is not cleared after it is resolved
_write_keepsBlocked(value, owner) ==
  IF blockedOn
    THEN /\ cur' = value
         /\ UNCHANGED <<blockedOn, backlog, deferreds>>
    ELSE /\ deferreds' = Append(deferreds, [resolves |-> 0, close |-> owner])
         /\ backlog' = Append(backlog, [value |-> value, deferred |-> Len(deferreds) + 1])
         /\ UNCHANGED <<blockedOn, cur>>

\* _write(value): hand the value to the blocked iterator, or queue it with a
\* fresh Deferred (owner: the _flush call whose close() awaits it, 0 for none)
_write(value, owner) ==
  IF blockedOn
    THEN /\ cur' = value
         /\ blockedOn' = FALSE
         /\ UNCHANGED <<backlog, deferreds>>
    ELSE /\ deferreds' = Append(deferreds, [resolves |-> 0, close |-> owner])
         /\ backlog' = Append(backlog, [value |-> value, deferred |-> Len(deferreds) + 1])
         /\ UNCHANGED <<blockedOn, cur>>

\* state of the promise returned by _write when its synchronous part is over
_writePromise == IF blockedOn THEN "resolved" ELSE "pending"

\* write(value): state of the returned promise; _write is called but its
\* promise is neither awaited nor returned
writePromise == IF closed THEN "rejected" ELSE "resolved"

\* mutant of write: this._closed is not tested
write_unchecked(value) ==
  /\ _write(Result(value), 0)
  /\ written' = Append(written, value)

write(value) ==
  IF closed
    THEN UNCHANGED <<blockedOn, cur, backlog, deferreds, written>>
    ELSE /\ _write(Result(value), 0)
         /\ written' = Append(written, value)

\* close(): returns the promise of _write
close(owner) ==
  /\ closed' = TRUE
  /\ _write(DoneMarker, owner)

\* one turn of the loop of [Symbol.asyncIterator] up to its await or yield
AfterValue(v) == IF v.done THEN "sawEnd" ELSE "item"

IterNext ==
  /\ cpc = "pull"
  /\ pulls' = pulls + 1
  /\ IF backlog # <<>>
       THEN LET maybeValue == Head(backlog)
                d == maybeValue.deferred
            IN /\ backlog' = Tail(backlog)
               /\ deferreds' = SetAt(deferreds, d,
                                     [deferreds[d] EXCEPT !.resolves = @ + 1])
               /\ closeProm' = IF deferreds[d].close # 0
                                 THEN SetAt(closeProm, deferreds[d].close, "resolved")
                                 ELSE closeProm
               /\ pulled' = Append(pulled, maybeValue.value)
               /\ cur' = maybeValue.value
               /\ cpc' = AfterValue(maybeValue.value)
               /\ UNCHANGED blockedOn
       ELSE /\ blockedOn' = TRUE
            /\ cur' = NoValue
            /\ cpc' = "blocked"
            /\ UNCHANGED <<backlog, deferreds, closeProm, pulled>>
  /\ UNCHANGED <<bvars, pvars, uvars, closed, initialized, writingFinished, mode, writeProm,
                 transformCb, flushPc, flushCb, thrown, errorEvents, written,
                 yielded, pushed>>

\* the iterator resumes from `await this.blockedOn.promise`
IterResume ==
  /\ cpc = "blocked"
  /\ ~blockedOn
  /\ pulled' = Append(pulled, cur)
  /\ cpc' = AfterValue(cur)
  /\ UNCHANGED <<bvars, pvars, uvars, blockedOn, backlog, closed, deferreds, cur, initialized,
                 writingFinished, mode, writeProm, transformCb, closeProm,
                 flushPc, flushCb, thrown, errorEvents, written, pulls, yielded,
                 pushed>>

\* ---- AsyncTransformStream ----

\* _initializeOnce(): starts the loop over _transformIter(this._inputs) once
_initializeOnce ==
  IF initialized = FALSE
    THEN initialized' = TRUE /\ cpc' = "start"
    ELSE UNCHANGED <<initialized, cpc>>

\* _transform(input, _encoding, callback)
_transform(input) ==
  /\ Len(transformCb) < MaxWrites
  /\ _initializeOnce
  /\ write(input)
  /\ writeProm' = Append(writeProm, writePromise)
  /\ transformCb' = Append(transformCb, "pending")
  /\ UNCHANGED <<bvars, pvars, uvars, closed, writingFinished, mode, closeProm, flushPc, flushCb,
                 thrown, errorEvents, pulls, pulled, yielded, pushed>>

\* the reaction on the promise of write(): callback() or callback(err)
TransformCallback(k) ==
  /\ transformCb[k] = "pending"
  /\ writeProm[k] # "pending"
  /\ transformCb' = SetAt(transformCb, k,
                          IF writeProm[k] = "resolved" THEN "ok" ELSE "err")
  /\ UNCHANGED <<bvars, pvars, uvars, blockedOn, backlog, closed, deferreds, cur, initialized,
                 writingFinished, mode, cpc, writeProm, closeProm, flushPc,
                 flushCb, thrown, errorEvents, written, pulls, pulled, yielded,
                 pushed>>

\* _flush(callback) up to `await this._inputs.close()`
_flush ==
  /\ Len(flushPc) < MaxFlushes
  /\ close(Len(flushPc) + 1)
  /\ closeProm' = Append(closeProm, _writePromise)
  /\ flushPc' = Append(flushPc, "awaitClose")
  /\ flushCb' = Append(flushCb, "none")
  /\ UNCHANGED <<bvars, pvars, uvars, initialized, writingFinished, mode, cpc, writeProm,
                 transformCb, thrown, errorEvents, written, pulls, pulled, yielded,
                 pushed>>

\* mutant of FlushClosed: _flush does not await this._inputs.close()
FlushClosed_nowait(i) ==
  /\ flushPc[i] = "awaitClose"
  /\ flushPc' = SetAt(flushPc, i, "awaitFinished")
  /\ UNCHANGED <<bvars, pvars, uvars, blockedOn, backlog, closed, deferreds, cur, initialized,
                 writingFinished, mode, cpc, writeProm, transformCb,
                 closeProm, flushCb, thrown, errorEvents, written, pulls, pulled,
                 yielded, pushed>>

\* _flush from `await this._inputs.close()` to `await this._writingFinished.promise`
FlushClosed(i) ==
  /\ flushPc[i] = "awaitClose"
  /\ closeProm[i] = "resolved"
  /\ flushPc' = SetAt(flushPc, i, "awaitFinished")
  /\ UNCHANGED <<bvars, pvars, uvars, blockedOn, backlog, closed, deferreds, cur, initialized,
                 writingFinished, mode, cpc, writeProm, transformCb,
                 closeProm, flushCb, thrown, errorEvents, written, pulls, pulled,
                 yielded, pushed>>

\* mutant of FlushFinished: _flush does not await this._writingFinished
FlushFinished_nowait(i) ==
  /\ flushPc[i] = "awaitFinished"
  /\ flushPc' = SetAt(flushPc, i, "done")
  /\ flushCb' = SetAt(flushCb, i, "ok")
  /\ UNCHANGED <<bvars, pvars, uvars, blockedOn, backlog, closed, deferreds, cur, initialized,
                 writingFinished, mode, cpc, writeProm, transformCb,
                 closeProm, thrown, errorEvents, written, pulls, pulled,
                 yielded, pushed>>

\* _flush from `await this._writingFinished.promise` to callback()
FlushFinished(i) ==
  /\ flushPc[i] = "awaitFinished"
  /\ writingFinished
  /\ flushPc' = SetAt(flushPc, i, "done")
  /\ flushCb' = SetAt(flushCb, i, "ok")
  /\ UNCHANGED <<bvars, pvars, uvars, blockedOn, backlog, closed, deferreds, cur, initialized,
                 writingFinished, mode, cpc, writeProm, transformCb,
                 closeProm, thrown, errorEvents, written, pulls, pulled, yielded,
                 pushed>>

\* ---- the subclass's _transformIter, seen through the loop of _initializeOnce ----

cUnchanged == <<blockedOn, backlog, closed, deferreds, cur, initialized,
                mode, writeProm, transformCb, closeProm, flushPc, flushCb,
                written, pulls, pulled>>

\* _transformIter asks its input for the next value
TransformPull ==
  /\ cpc \in {"start", "resumed"}
  /\ cpc' = "pull"
  /\ UNCHANGED <<bvars, pvars, uvars, cUnchanged, writingFinished, thrown, errorEvents,
                 yielded, pushed>>

\* _transformIter yields the chunk it was given
TransformYield ==
  /\ cpc = "item"
  /\ yielded' = Append(yielded, cur.value)
  /\ cpc' = "yielded"
  /\ UNCHANGED <<bvars, pvars, uvars, cUnchanged, writingFinished, thrown, errorEvents,
                 pushed>>

\* the body of the for-await loop of _initializeOnce: this.push(value)
Push ==
  /\ cpc = "yielded"
  /\ pushed' = Append(pushed, yielded[Len(yielded)])
  /\ cpc' = "resumed"
  /\ UNCHANGED <<bvars, pvars, uvars, cUnchanged, writingFinished, thrown, errorEvents,
                 yielded>>

\* _transformIter returns after its input reported the end
TransformReturn ==
  /\ cpc = "sawEnd"
  /\ cpc' = "returned"
  /\ UNCHANGED <<bvars, pvars, uvars, cUnchanged, writingFinished, thrown, errorEvents,
                 yielded, pushed>>

\* _transformIter returns without asking for the rest of its input
TransformReturnEarly ==
  /\ mode = "early"
  /\ cpc \in {"start", "item", "resumed"}
  /\ cpc' = "returned"
  /\ UNCHANGED <<bvars, pvars, uvars, cUnchanged, writingFinished, thrown, errorEvents,
                 yielded, pushed>>

\* _transformIter throws
TransformRaise ==
  /\ mode = "raising"
  /\ cpc \in {"start", "item", "resumed", "sawEnd"}
  /\ thrown' = <<"transformError", cpc>>
  /\ cpc' = "raised"
  /\ UNCHANGED <<bvars, pvars, uvars, cUnchanged, writingFinished, errorEvents, yielded,
                 pushed>>

\* transformDonePromise.then(() => this._writingFinished.resolve(undefined), ...)
TransformDone ==
  /\ cpc = "returned"
  /\ writingFinished' = TRUE
  /\ cpc' = "done"
  /\ UNCHANGED <<bvars, pvars, uvars, cUnchanged, thrown, errorEvents, yielded, pushed>>

\* mutant of TransformFailed: the rejection handler resolves _writingFinished
TransformFailed_swallow ==
  /\ cpc = "raised"
  /\ writingFinished' = TRUE
  /\ cpc' = "failed"
  /\ UNCHANGED <<bvars, pvars, uvars, cUnchanged, thrown, errorEvents, yielded, pushed>>

\* transformDonePromise.then(..., (err) => this.emit('error', err))
TransformFailed ==
  /\ cpc = "raised"
  /\ errorEvents' = Append(errorEvents, thrown)
  /\ cpc' = "failed"
  /\ UNCHANGED <<bvars, pvars, uvars, cUnchanged, writingFinished, thrown, yielded, pushed>>

\* ---- the callers of the stream ----

CallbacksDone == \A k \in 1..Len(transformCb) : transformCb[k] # "pending"

\* stream.Transform hands over the next chunk once the previous callback was
\* called, and never after it has started to flush
ProtocolTransform(v) ==
  /\ CallbacksDone
  /\ flushPc = <<>>
  /\ _transform(v)

\* stream.Transform flushes once, after the last chunk was taken
ProtocolFlush ==
  /\ CallbacksDone
  /\ flushPc = <<>>
  /\ _flush

\* the reactions and continuations that the job queue runs
StreamStep ==
  \/ IterNext
  \/ IterResume
  \/ TransformPull
  \/ TransformYield
  \/ Push
  \/ TransformReturn
  \/ TransformReturnEarly
  \/ TransformRaise
  \/ TransformDone
  \/ TransformFailed
  \/ \E k \in 1..Len(transformCb) : TransformCallback(k)
  \/ \E i \in 1..Len(flushPc) : FlushClosed(i)
  \/ \E i \in 1..Len(flushPc) : FlushFinished(i)

\* ---- build() ----

ConfigValues == {"undefined", "config"}
Enqueue(q, new) == q \o new

\* parsePreCacheConfig settles: the parsed config, undefined for a missing
\* file, or an error for a malformed one.  Its reactions were registered at
\* lines 129, 138 and 148, in that order.
LoadSettles(outcome) ==
  /\ loadSWConfig.state = "pending"
  /\ loadSWConfig' = outcome
  /\ jobs' = Enqueue(jobs, << <<"logThen", "none", "none">>,
                              <<"allElem", "unbundled", "load">>,
                              <<"allElem", "bundled", "load">> >>)
  /\ UNCHANGED <<svars, pvars, uvars, rejections, streamEv, waitForP, logThen, phaseAll, allSeen, swCalls,
                 swPromise, postProcessing, finalAll, finalSeen, buildPromise,
                 logged>>

\* mutant of waitFor: 'error' resolves the promise too
waitFor_resolves(b, ev) == Fulfilled(b)

\* waitFor(stream): 'end' resolves the promise, 'error' rejects it
waitFor(b, ev) ==
  IF ev = "end" THEN Fulfilled(b) ELSE Rejected(<<"streamError", b>>)

\* mutant of ForkOf: both branches are piped from the same fork
ForkOf_shared(b) == "unbundled"

\* each phase is piped from a forkStream(buildStream) of its own
ForkOf(b) == b

\* buildStream emits its next file: every fork piped from it gets the file;
\* it is held back while a fork is full
SourceEmits ==
  /\ srcState = "flowing"
  /\ srcCount < MaxFiles
  /\ \A f \in Branches : Len(forkBuf[f]) < ForkBuffer
  /\ srcCount' = srcCount + 1
  /\ forkBuf' = [f \in Branches |-> Append(forkBuf[f], srcCount + 1)]
  /\ UNCHANGED <<svars, bvars, uvars, srcState, received, stageErr>>

\* buildStream ends
SourceEnds ==
  /\ srcState = "flowing"
  /\ srcState' = "ended"
  /\ UNCHANGED <<svars, bvars, uvars, srcCount, forkBuf, received, stageErr>>

\* a stream both branches depend on (an optimize stream, rejoinHtml, the
\* analyzer) emits 'error': it stops, and no listener of build() hears it
SourceError ==
  /\ srcState = "flowing"
  /\ srcState' = "error"
  /\ UNCHANGED <<svars, bvars, uvars, srcCount, forkBuf, received, stageErr>>

\* the stages of a branch take the next file out of the branch's fork
BranchTakes(b) ==
  /\ streamEv[b] = "none"
  /\ ~stageErr[b]
  /\ forkBuf[ForkOf(b)] # <<>>
  /\ received' = [received EXCEPT ![b] = Append(@, Head(forkBuf[ForkOf(b)]))]
  /\ forkBuf' = [forkBuf EXCEPT ![ForkOf(b)] = Tail(@)]
  /\ UNCHANGED <<svars, bvars, uvars, srcCount, srcState, stageErr>>

\* a stage between the fork and dest() (PrefetchTransform, the bundler) emits
\* 'error': .pipe() does not forward it, the stage is unpiped and takes no
\* more files
BranchStageError(b) ==
  /\ streamEv[b] = "none"
  /\ ~stageErr[b]
  /\ stageErr' = [stageErr EXCEPT ![b] = TRUE]
  /\ UNCHANGED <<svars, bvars, uvars, srcCount, srcState, forkBuf, received>>

\* the terminal stream of a branch emits 'end', once everything upstream has
\* ended and was passed on, or 'error'
StreamEmits(b, ev) ==
  /\ streamEv[b] = "none"
  /\ ev = "end" => /\ srcState = "ended"
                   /\ forkBuf[ForkOf(b)] = <<>>
                   /\ ~stageErr[b]
  /\ streamEv' = [streamEv EXCEPT ![b] = ev]
  /\ waitForP' = [waitForP EXCEPT ![b] = waitFor(b, ev)]
  /\ jobs' = Enqueue(jobs, << <<"allElem", b, "wait">> >>)
  /\ UNCHANGED <<svars, pvars, uvars, rejections, loadSWConfig, logThen, phaseAll, allSeen, swCalls, swPromise,
                 postProcessing, finalAll, finalSeen, buildPromise, logged>>

\* the reaction of loadSWConfig.then((swConfig) => {... logger.debug ...})
LogThen ==
  /\ jobs # <<>>
  /\ Head(jobs)[1] = "logThen"
  /\ logThen' = IF loadSWConfig.state = "fulfilled"
                  THEN Fulfilled("undefined")
                  ELSE loadSWConfig
  /\ jobs' = Tail(jobs)
  /\ UNCHANGED <<svars, pvars, uvars, rejections, streamEv, waitForP, loadSWConfig, phaseAll, allSeen, swCalls,
                 swPromise, postProcessing, finalAll, finalSeen, buildPromise,
                 logged>>

\* mutant of PromiseAll: fulfilled by the first fulfilled input (Promise.race)
PromiseRace(all, seen, inputs, p, result) ==
  IF all.state # "pending" THEN all
  ELSE IF p.state = "rejected" THEN p
  ELSE Fulfilled(result)

\* mutant of PromiseAll: a later rejection replaces the one already reported
PromiseAll_lastWins(all, seen, inputs, p, result) ==
  IF p.state = "rejected" THEN p
  ELSE IF all.state # "pending" THEN all
  ELSE IF seen = inputs THEN Fulfilled(result)
  ELSE all

\* Promise.all: settle with the inputs seen so far and one more input `p`
PromiseAll(all, seen, inputs, p, result) ==
  IF all.state # "pending" THEN all
  ELSE IF p.state = "rejected" THEN p
  ELSE IF seen = inputs THEN Fulfilled(result)
  ELSE all

\* mutant of PhaseAllInput: Promise.all is given waitFor(phase) alone
PhaseAllInput_streamOnly(b) ==
  /\ jobs # <<>>
  /\ Head(jobs)[1] = "allElem"
  /\ Head(jobs)[2] = b
  /\ LET src == Head(jobs)[3]
         p == IF src = "load" THEN loadSWConfig ELSE waitForP[b]
         seen == IF p.state = "fulfilled" THEN allSeen[b] \cup {src} ELSE allSeen[b]
         all == PromiseAll(phaseAll[b], seen, {"wait"}, p, loadSWConfig.val[2])
     IN /\ allSeen' = [allSeen EXCEPT ![b] = seen]
        /\ phaseAll' = [phaseAll EXCEPT ![b] = all]
        /\ jobs' = IF all # phaseAll[b]
                     THEN Enqueue(Tail(jobs), << <<"postThen", b, "none">> >>)
                     ELSE Tail(jobs)
  /\ UNCHANGED <<svars, pvars, uvars, rejections, streamEv, waitForP, loadSWConfig, logThen, swCalls, swPromise,
                 postProcessing, finalAll, finalSeen, buildPromise, logged>>

\* an input of Promise.all([loadSWConfig, waitFor(phase)]) has settled
PhaseAllInput(b) ==
  /\ jobs # <<>>
  /\ Head(jobs)[1] = "allElem"
  /\ Head(jobs)[2] = b
  /\ LET src == Head(jobs)[3]
         p == IF src = "load" THEN loadSWConfig ELSE waitForP[b]
         seen == IF p.state = "fulfilled" THEN allSeen[b] \cup {src} ELSE allSeen[b]
         all == PromiseAll(phaseAll[b], seen, {"load", "wait"}, p, loadSWConfig.val[2])
     IN /\ allSeen' = [allSeen EXCEPT ![b] = seen]
        /\ phaseAll' = [phaseAll EXCEPT ![b] = all]
        /\ jobs' = IF all # phaseAll[b]
                     THEN Enqueue(Tail(jobs), << <<"postThen", b, "none">> >>)
                     ELSE Tail(jobs)
  /\ UNCHANGED <<svars, pvars, uvars, rejections, streamEv, waitForP, loadSWConfig, logThen, swCalls, swPromise,
                 postProcessing, finalAll, finalSeen, buildPromise, logged>>

\* mutant of PostProcess: the handler also runs when Promise.all is rejected
PostProcess_always(b) ==
  /\ jobs # <<>>
  /\ Head(jobs)[1] = "postThen"
  /\ Head(jobs)[2] = b
  /\ swCalls' = Append(swCalls, [buildRoot |-> b, swConfig |-> phaseAll[b].val[2]])
  /\ swPromise' = [swPromise EXCEPT ![b] = Pending]
  /\ jobs' = Tail(jobs)
  /\ UNCHANGED <<svars, pvars, uvars, rejections, streamEv, waitForP, loadSWConfig, logThen, phaseAll,
                 allSeen, postProcessing, finalAll, finalSeen, buildPromise,
                 logged>>

\* mutant of PostProcess: swConfig is taken from results[1], the stream
PostProcess_wrongIndex(b) ==
  /\ jobs # <<>>
  /\ Head(jobs)[1] = "postThen"
  /\ Head(jobs)[2] = b
  /\ IF phaseAll[b].state = "fulfilled"
       THEN /\ swCalls' = Append(swCalls, [buildRoot |-> b, swConfig |-> waitForP[b].val[2]])
            /\ swPromise' = [swPromise EXCEPT ![b] = Pending]
            /\ jobs' = Tail(jobs)
            /\ UNCHANGED <<postProcessing, rejections>>
       ELSE /\ postProcessing' = [postProcessing EXCEPT ![b] = phaseAll[b]]
            /\ rejections' = Append(rejections, b)
            /\ jobs' = Enqueue(Tail(jobs), << <<"finalElem", b, "none">> >>)
            /\ UNCHANGED <<swCalls, swPromise>>
  /\ UNCHANGED <<svars, pvars, uvars, streamEv, waitForP, loadSWConfig, logThen, phaseAll, allSeen,
                 finalAll, finalSeen, buildPromise, logged>>

\* the .then((results) => addServiceWorker({... swConfig: results[0] ...})) of
\* a branch; a rejection of Promise.all passes through to the derived promise
PostProcess(b) ==
  /\ jobs # <<>>
  /\ Head(jobs)[1] = "postThen"
  /\ Head(jobs)[2] = b
  /\ IF phaseAll[b].state = "fulfilled"
       THEN /\ swCalls' = Append(swCalls, [buildRoot |-> b, swConfig |-> phaseAll[b].val[2]])
            /\ swPromise' = [swPromise EXCEPT ![b] = Pending]
            /\ jobs' = Tail(jobs)
            /\ UNCHANGED <<postProcessing, rejections>>
       ELSE /\ postProcessing' = [postProcessing EXCEPT ![b] = phaseAll[b]]
            /\ rejections' = Append(rejections, b)
            /\ jobs' = Enqueue(Tail(jobs), << <<"finalElem", b, "none">> >>)
            /\ UNCHANGED <<swCalls, swPromise>>
  /\ UNCHANGED <<svars, pvars, uvars, streamEv, waitForP, loadSWConfig, logThen, phaseAll, allSeen,
                 finalAll, finalSeen, buildPromise, logged>>

\* the promise returned by addServiceWorker settles
ServiceWorkerSettles(b, ok) ==
  /\ swPromise[b].state = "pending"
  /\ swPromise' = [swPromise EXCEPT ![b] =
                     IF ok THEN Fulfilled("written") ELSE Rejected(<<"swError", b>>)]
  /\ jobs' = Enqueue(jobs, << <<"postAdopt", b, "none">> >>)
  /\ UNCHANGED <<svars, pvars, uvars, rejections, streamEv, waitForP, loadSWConfig, logThen, phaseAll, allSeen,
                 swCalls, postProcessing, finalAll, finalSeen, buildPromise,
                 logged>>

\* the promise derived by .then follows the promise its handler returned
PostProcessSettles(b) ==
  /\ jobs # <<>>
  /\ Head(jobs)[1] = "postAdopt"
  /\ Head(jobs)[2] = b
  /\ postProcessing' = [postProcessing EXCEPT ![b] = swPromise[b]]
  /\ rejections' = IF swPromise[b].state = "rejected"
                     THEN Append(rejections, b)
                     ELSE rejections
  /\ jobs' = Enqueue(Tail(jobs), << <<"finalElem", b, "none">> >>)
  /\ UNCHANGED <<svars, pvars, uvars, streamEv, waitForP, loadSWConfig, logThen, phaseAll, allSeen,
                 swCalls, swPromise, finalAll, finalSeen, buildPromise, logged>>

\* an input of Promise.all([unbundledPostProcessing, bundledPostProcessing])
\* has settled
FinalAllInput(b) ==
  /\ jobs # <<>>
  /\ Head(jobs)[1] = "finalElem"
  /\ Head(jobs)[2] = b
  /\ LET p == postProcessing[b]
         seen == IF p.state = "fulfilled" THEN finalSeen \cup {b} ELSE finalSeen
         all == PromiseAll(finalAll, seen, Branches, p, "results")
     IN /\ finalSeen' = seen
        /\ finalAll' = all
        /\ jobs' = IF all # finalAll
                     THEN Enqueue(Tail(jobs), << <<"buildAwait", "none", "none">> >>)
                     ELSE Tail(jobs)
  /\ UNCHANGED <<svars, pvars, uvars, rejections, streamEv, waitForP, loadSWConfig, logThen, phaseAll, allSeen,
                 swCalls, swPromise, postProcessing, buildPromise, logged>>

\* build() resumes from `await Promise.all([...])`: it logs and returns, or
\* the rejection leaves the async function
BuildResumes ==
  /\ jobs # <<>>
  /\ Head(jobs)[1] = "buildAwait"
  /\ logged' = (finalAll.state = "fulfilled")
  /\ buildPromise' = IF finalAll.state = "fulfilled"
                       THEN Fulfilled("undefined")
                       ELSE finalAll
  /\ jobs' = Tail(jobs)
  /\ UNCHANGED <<svars, pvars, uvars, rejections, streamEv, waitForP, loadSWConfig, logThen, phaseAll, allSeen,
                 swCalls, swPromise, postProcessing, finalAll, finalSeen>>

LoadOutcomes == {Fulfilled(c) : c \in ConfigValues} \cup {Rejected(<<"configError", "none">>)}

NextBuild ==
  \/ SourceEmits
  \/ SourceEnds
  \/ SourceError
  \/ \E b \in Branches : BranchTakes(b)
  \/ \E b \in Branches : BranchStageError(b)
  \/ \E o \in LoadOutcomes : LoadSettles(o)
  \/ \E b \in Branches, ev \in {"end", "error"} : StreamEmits(b, ev)
  \/ \E b \in Branches, ok \in BOOLEAN : ServiceWorkerSettles(b, ok)
  \/ LogThen
  \/ \E b \in Branches : PhaseAllInput(b)
  \/ \E b \in Branches : PostProcess(b)
  \/ \E b \in Branches : PostProcessSettles(b)
  \/ \E b \in Branches : FinalAllInput(b)
  \/ BuildResumes

Init == InitStream /\ InitBuild /\ InitPipe /\ InitIdle

\* build() on its own: no stream of build/streams.ts takes part
InitBuildOnly == Init /\ mode = "identity"

SpecBuild == InitBuildOnly /\ [][NextBuild]_vars

\* ---- pipeStreams() ----

Streams == 1..MaxStreams
SeqsUpTo(S, n) == UNION {[1..k -> S] : k \in 0..n}
\* a PipeStream: a stream, or an array of streams
PipeStream ==
  {[arr |-> FALSE, items |-> <<x>>] : x \in Streams}
    \cup {[arr |-> TRUE, items |-> a] : a \in SeqsUpTo(Streams, MaxList)}
PipeStreamLists == SeqsUpTo(PipeStream, MaxList)

\* Array.prototype.concat.apply([], streams): an array argument is spread
\* into the result, any other argument is appended to it
RECURSIVE Concat(_)
Concat(streams) ==
  IF streams = <<>> THEN <<>>
  ELSE LET e == Head(streams)
       IN (IF e.arr THEN e.items ELSE <<e.items[1]>>) \o Concat(Tail(streams))

\* mutant of PipeCallback: the callback returns a, the stream it piped from
PipeCallback_returnsSource(acc, b) ==
  [acc EXCEPT !.pipes = Append(@, <<acc.ret, b>>)]

\* the callback of reduce, (a, b) => a.pipe(b): pipe returns its destination
PipeCallback(acc, b) ==
  [acc EXCEPT !.ret = b, !.pipes = Append(@, <<acc.ret, b>>)]

\* reduce without an initial value, from the second element on
RECURSIVE Reduce(_, _)
Reduce(acc, rest) ==
  IF rest = <<>> THEN acc
  ELSE Reduce(PipeCallback(acc, Head(rest)), Tail(rest))

\* pipeStreams(streams): reduce of an empty array with no initial value
\* throws a TypeError; the first element starts as the accumulator
pipeStreams(streams) ==
  LET flat == Concat(streams)
  IN IF flat = <<>>
       THEN [called |-> TRUE, threw |-> TRUE, ret |-> 0, pipes |-> <<>>]
       ELSE Reduce([called |-> TRUE, threw |-> FALSE, ret |-> Head(flat),
                    pipes |-> <<>>], Tail(flat))

CallPipeStreams ==
  /\ ~pipeResult.called
  /\ pipeResult' = pipeStreams(streamsArg)
  /\ UNCHANGED <<svars, bvars, pvars, streamsArg, cliOptions, branchStages>>

\* ---- BuildCommand.run() and the stages build() pipes together ----

\* the command line: the flag is true when given and absent otherwise
CliOptionSets ==
  {[f \in {"insert-prefetch-links", "env"} |->
      IF f = "env" THEN e ELSE v] : e \in {"undefined", "custom"},
                                   v \in {"true", "undefined"}}

\* let buildOptions: BuildOptions = {...}
BuildOptionsOf(options) ==
  [f \in {"addServiceWorker", "swPrecacheConfig", "insertPrefetchLinks", "bundle"} |->
     CASE f = "addServiceWorker" -> GetField(options, "add-service-worker")
       [] f = "swPrecacheConfig" -> GetField(options, "sw-precache-config")
       [] f = "insertPrefetchLinks" -> GetField(options, "insert-prefetch-links")
       [] f = "bundle" -> GetField(options, "bundle")]

\* gulpif(condition, stream): the stream takes part when the condition is truthy
GulpIf(condition, stream) == IF Truthy(condition) THEN <<stream>> ELSE <<>>

\* unbundledPhase and bundledPhase
UnbundledStages(options) ==
  <<"forkStream">>
    \o GulpIf(GetField(options, "insertDependencyLinks"), "PrefetchTransform")
    \o <<"dest">>
BundledStages(options) == <<"forkStream", "bundler", "dest">>

\* BuildCommand.run(options, config): env.build() when there is one, else build()
BuildCommandRun ==
  /\ ~branchStages.run
  /\ LET buildOptions == BuildOptionsOf(cliOptions)
     IN branchStages' =
          IF Truthy(GetField(cliOptions, "env"))
            THEN [branchStages EXCEPT !.run = TRUE]
            ELSE [run |-> TRUE, built |-> TRUE,
                  unbundled |-> UnbundledStages(buildOptions),
                  bundled |-> BundledStages(buildOptions)]
  /\ UNCHANGED <<svars, bvars, pvars, streamsArg, pipeResult, cliOptions>>

NextPure ==
  \/ CallPipeStreams
  \/ BuildCommandRun

\* pipeStreams and BuildCommand.run on every argument within the bounds
InitPure ==
  /\ InitStream /\ mode = "identity"
  /\ InitBuild
  /\ InitPipe
  /\ streamsArg \in PipeStreamLists
  /\ pipeResult = NotPiped
  /\ cliOptions \in CliOptionSets
  /\ branchStages = NotBuilt

SpecPure == InitPure /\ [][NextPure]_vars

\* the stream driven by stream.Transform
Next ==
  \/ \E v \in Items : ProtocolTransform(v)
  \/ ProtocolFlush
  \/ IterNext
  \/ IterResume
  \/ TransformPull
  \/ TransformYield
  \/ Push
  \/ TransformReturn
  \/ TransformReturnEarly
  \/ TransformRaise
  \/ TransformDone
  \/ TransformFailed
  \/ \E k \in 1..Len(transformCb) : TransformCallback(k)
  \/ \E i \in 1..Len(flushPc) : FlushClosed(i)
  \/ \E i \in 1..Len(flushPc) : FlushFinished(i)

Spec == Init /\ [][Next]_vars

\* the methods called in any order
NextFree ==
  \/ \E v \in Items : _transform(v)
  \/ _flush
  \/ StreamStep

SpecFree == Init /\ [][NextFree]_vars

\* every reaction job that is queued is eventually run
FairSpec == Spec /\ WF_vars(StreamStep)

\* ======================= properties =======================

IsPrefix(s, t) == Len(s) <= Len(t) /\ SubSeq(t, 1, Len(s)) = s

\* the data chunks among the IteratorResults the iterator obtained
PulledItems == [i \in 1..Cardinality({j \in 1..Len(pulled) : ~pulled[j].done})
                  |-> pulled[i].value]
EndObserved == \E j \in 1..Len(pulled) : pulled[j].done
FlushedOk == \E i \in 1..Len(flushCb) : flushCb[i] = "ok"
\* data chunks waiting in the backlog
BacklogItems == Cardinality({i \in 1..Len(backlog) : ~backlog[i].value.done})

\* C1: with an identity _transformIter, what is pushed downstream is at every
\* moment a prefix of what was written, in the same order, and is all of it
\* once _flush has called back; the iterator obtains the chunks in the order
\* written, and the end marker only after every written chunk.
C1_IdentityOrder ==
  mode = "identity" =>
    /\ IsPrefix(pushed, written)
    /\ IsPrefix(PulledItems, written)
    /\ \A j \in 1..Len(pulled) : pulled[j].done => j = Len(written) + 1
    /\ EndObserved => PulledItems = written
    /\ FlushedOk => pushed = written

C1_Witness ==
  /\ mode = "identity"
  /\ FlushedOk
  /\ Len(written) >= 2
  /\ written[1] # written[2]
  /\ pushed = written

\* C2: a write() whose promise is resolved has had its chunk taken by the
\* iterator: the k-th write never completes while its chunk is in the backlog.
C2_WriteWaitsForPull ==
  \A k \in 1..Len(writeProm) :
    writeProm[k] = "resolved" => k <= Len(written) - BacklogItems

\* C3: with a _transformIter that consumes all its input and returns, every
\* _flush eventually calls back without error, whatever the number of chunks.
C3_FlushLiveness ==
  (mode = "identity" /\ Len(flushPc) > 0) ~> FlushedOk

\* C4: when _flush has called back without error the input is closed, the
\* transform has seen the end of its input and returned, and all it yielded
\* was pushed; nothing is pushed after that callback.
C4_FlushOrdering ==
  /\ [](FlushedOk => /\ closed
                     /\ EndObserved
                     /\ cpc = "done"
                     /\ pushed = yielded)
  /\ [][FlushedOk => pushed' = pushed]_vars

C4_Witness ==
  /\ FlushedOk
  /\ Len(pushed) >= 2

\* C5: a write() made after close() is rejected, queues nothing, hands nothing
\* to the iterator, and the callback of its _transform gets the error.
C5_WriteAfterClose ==
  /\ [](\A k \in 1..Len(writeProm) :
          /\ writeProm[k] = "rejected" => transformCb[k] \in {"pending", "err"}
          /\ transformCb[k] = "err" => writeProm[k] = "rejected")
  /\ [][(closed /\ Len(writeProm') > Len(writeProm)) =>
          /\ writeProm'[Len(writeProm')] = "rejected"
          /\ backlog' = backlog
          /\ blockedOn' = blockedOn
          /\ cur' = cur
          /\ written' = written]_vars

C5_Witness ==
  \E k \in 1..Len(writeProm) :
    /\ writeProm[k] = "rejected"
    /\ transformCb[k] = "err"
    /\ k > 1
    /\ written # <<>>

\* C6: every close() after the first one fails with an error.
C6_CloseAfterClose ==
  \A i \in 2..Len(closeProm) : closeProm[i] = "rejected"

\* C7: once _transformIter has thrown, an 'error' event with that error is
\* emitted, and no _flush ever calls back without error.
C7_TransformFailure ==
  /\ [](cpc \in {"raised", "failed"} => ~FlushedOk)
  /\ [](cpc = "failed" => errorEvents = <<thrown>>)
  /\ (cpc = "raised") ~> (cpc = "failed" /\ errorEvents = <<thrown>>)
  /\ [][(cpc \in {"raised", "failed"}) => (cpc' \in {"raised", "failed"})]_vars

C7_Witness ==
  /\ cpc = "failed"
  /\ Len(flushPc) > 0
  /\ Len(pushed) > 0
  /\ errorEvents = <<thrown>>

\* C8: build() is fulfilled, and 'Build complete!' logged, only if both
\* terminal streams ended, the config load was fulfilled and both
\* addServiceWorker promises were fulfilled; once every queued reaction has
\* run, a rejected config load, an 'error' of a terminal stream or a rejected
\* addServiceWorker has rejected build().
BuildFailure ==
  \/ loadSWConfig.state = "rejected"
  \/ \E b \in Branches : streamEv[b] = "error"
  \/ \E b \in Branches : swPromise[b].state = "rejected"

C8_BuildSuccessNeedsAll ==
  /\ (buildPromise.state = "fulfilled" \/ logged) =>
       /\ buildPromise.state = "fulfilled" /\ logged
       /\ loadSWConfig.state = "fulfilled"
       /\ \A b \in Branches : streamEv[b] = "end"
       /\ \A b \in Branches : swPromise[b].state = "fulfilled"
  /\ (BuildFailure /\ jobs = <<>>) => buildPromise.state = "rejected"

C8_Witness ==
  /\ buildPromise.state = "fulfilled"
  /\ logged
  /\ jobs = <<>>

\* C9: addServiceWorker is called for a branch at most once, and only when
\* the terminal stream of that branch has ended and the config load is
\* fulfilled; it gets the root of that branch.
SWCallsOf(b) == {i \in 1..Len(swCalls) : swCalls[i].buildRoot = b}

C9_PostProcessOrdering ==
  \A b \in Branches :
    /\ Cardinality(SWCallsOf(b)) <= 1
    /\ (swPromise[b].state # "none") = (SWCallsOf(b) # {})
    /\ SWCallsOf(b) # {} =>
         /\ streamEv[b] = "end"
         /\ loadSWConfig.state = "fulfilled"

C9_Witness ==
  /\ Len(swCalls) = 2
  /\ swCalls[1].buildRoot = "bundled"
  /\ jobs = <<>>

\* C10 as stated: build() is settled only when both post-processing promises
\* and the config load are settled.
C10_FullSettlement ==
  buildPromise.state # "pending" =>
    /\ loadSWConfig.state # "pending"
    /\ \A b \in Branches : postProcessing[b].state # "pending"

\* C10 amended: build() is fulfilled only when both post-processing promises
\* and the config load are fulfilled; it is rejected only when a
\* post-processing promise is rejected, with the error of that promise.
C10_SettlementAmended ==
  /\ buildPromise.state = "fulfilled" =>
       /\ loadSWConfig.state = "fulfilled"
       /\ \A b \in Branches : postProcessing[b].state = "fulfilled"
  /\ buildPromise.state = "rejected" =>
       \E b \in Branches : postProcessing[b] = buildPromise

C10_Witness ==
  /\ buildPromise.state = "rejected"
  /\ \E b \in Branches : postProcessing[b].state = "pending"
  /\ \E b \in Branches : postProcessing[b].state = "rejected"

\* the files buildStream has emitted, in order
Emitted == [i \in 1..srcCount |-> i]
\* a stream of the branch, between its fork and its end, emitted 'error'
BranchFailed(b) == stageErr[b] \/ streamEv[b] = "error"
\* an error upstream of the stream the branch hands to waitFor
UpstreamFailed(b) == stageErr[b] \/ srcState = "error"
\* nothing is left to run or to settle, except in branches whose upstream failed
Quiet ==
  /\ jobs = <<>>
  /\ loadSWConfig.state # "pending"
  /\ \A b \in Branches : swPromise[b].state # "pending"
  /\ \A b \in Branches : streamEv[b] # "none" \/ UpstreamFailed(b)

\* C11: when one branch fails while the other is healthy and nothing else
\* fails, build() is rejected with the failing branch's error as soon as the
\* reactions to the failure have run, and no file emitted by buildStream is
\* taken away from the healthy branch: each was received by it or waits in
\* its fork.
C11_FailFastNoCancel ==
  \A b \in Branches : \A o \in Branches \ {b} :
    ( /\ BranchFailed(b)
      /\ ~BranchFailed(o)
      /\ srcState # "error"
      /\ loadSWConfig.state # "rejected"
      /\ swPromise[o].state # "rejected"
      /\ jobs = <<>> )
    => /\ buildPromise.state = "rejected"
       /\ buildPromise.val[2] = b
       /\ received[o] \o forkBuf[o] = Emitted
       /\ streamEv[o] = "end" => received[o] = Emitted

C13_UpstreamErrorReported ==
  \A b \in Branches :
    (UpstreamFailed(b) /\ Quiet) =>
      /\ postProcessing[b].state = "rejected"
      /\ buildPromise.state = "rejected"

\* C14: a rejected build() carries the error of unbundledPostProcessing
\* whenever that promise is rejected, whichever rejection came first.
C14_LowestIndexError ==
  (buildPromise.state = "rejected" /\ postProcessing["unbundled"].state = "rejected")
    => buildPromise.val = postProcessing["unbundled"].val

\* C14 as amended: a rejected build() carries the error of the post-processing
\* promise that was rejected first in time, and keeps it.
C14_FirstRejectionInTime ==
  /\ buildPromise.state = "rejected" =>
       /\ rejections # <<>>
       /\ buildPromise.val = postProcessing[rejections[1]].val
  /\ finalAll.state = "rejected" =>
       /\ rejections # <<>>
       /\ finalAll.val = postProcessing[rejections[1]].val

C14_Witness ==
  /\ buildPromise.state = "rejected"
  /\ Len(rejections) = 2
  /\ rejections[1] = "bundled"
  /\ postProcessing["unbundled"].val # postProcessing["bundled"].val

\* the promises build() creates, and whether build() attaches a reaction that
\* runs when the promise is rejected
PromiseState ==
  [loadSWConfig |-> {loadSWConfig.state},
   logThen |-> {logThen.state},
   waitFor |-> {waitForP[b].state : b \in Branches},
   phaseAll |-> {phaseAll[b].state : b \in Branches},
   addServiceWorker |-> {swPromise[b].state : b \in Branches},
   postProcessing |-> {postProcessing[b].state : b \in Branches},
   finalAll |-> {finalAll.state}]
RejectionHandled ==
  [loadSWConfig |-> TRUE,
   logThen |-> FALSE,
   waitFor |-> TRUE,
   phaseAll |-> TRUE,
   addServiceWorker |-> TRUE,
   postProcessing |-> TRUE,
   finalAll |-> TRUE]
UnhandledRejections ==
  {n \in DOMAIN PromiseState : "rejected" \in PromiseState[n] /\ ~RejectionHandled[n]}

\* C15: no promise of build() is rejected without a rejection handler.
C15_NoUnhandledRejection == UnhandledRejections = {}

\* C16: the config is loaded once and never changes once loaded, and every
\* addServiceWorker call gets the value the load was fulfilled with, which is
\* undefined for a missing file.
C16_ConfigMemoized ==
  /\ [](\A i \in 1..Len(swCalls) :
          /\ loadSWConfig.state = "fulfilled"
          /\ swCalls[i].swConfig = loadSWConfig.val[2])
  /\ [](\A i, j \in 1..Len(swCalls) : swCalls[i].swConfig = swCalls[j].swConfig)
  /\ [][loadSWConfig.state # "pending" => loadSWConfig' = loadSWConfig]_vars

C16_Witness ==
  /\ Len(swCalls) = 2
  /\ swCalls[1].buildRoot = "bundled"
  /\ swCalls[2].buildRoot = "unbundled"
  /\ swCalls[1].swConfig = "undefined"
  /\ swCalls[2].swConfig = "undefined"

\* C21: while the config load has not settled, build() has not settled and
\* addServiceWorker has been called for neither branch.
C21_HangOnConfig ==
  loadSWConfig.state = "pending" =>
    /\ buildPromise.state = "pending"
    /\ swCalls = <<>>

\* C21 as amended: while the config load has not settled, addServiceWorker
\* has been called for neither branch and build() is not fulfilled; build()
\* stays pending unless the terminal stream of a branch emitted 'error', and
\* is then rejected with the error of such a stream.
C21_HangUnlessStreamError ==
  loadSWConfig.state = "pending" =>
    /\ swCalls = <<>>
    /\ ~logged
    /\ buildPromise.state # "fulfilled"
    /\ \A b \in Branches : postProcessing[b].state # "fulfilled"
    /\ (\A b \in Branches : streamEv[b] # "error") =>
         /\ buildPromise.state = "pending"
         /\ \A b \in Branches : postProcessing[b].state = "pending"
    /\ buildPromise.state = "rejected" =>
         \E b \in Branches : /\ streamEv[b] = "error"
                             /\ buildPromise = waitForP[b]

C21_Witness ==
  /\ loadSWConfig.state = "pending"
  /\ \A b \in Branches : streamEv[b] = "end"
  /\ srcCount > 0
  /\ jobs = <<>>
  /\ buildPromise.state = "pending"

\* the value blockedOn was resolved with, until the iterator resumes with it
InFlight == IF cpc = "blocked" /\ ~blockedOn THEN <<cur>> ELSE <<>>
\* the IteratorResults waiting in the backlog
BacklogValues == [i \in 1..Len(backlog) |-> backlog[i].value]
\* every IteratorResult given to _write that is still accounted for
Mailbox == pulled \o InFlight \o BacklogValues
IsData(r) == ~r.done
IsEnd(r) == r.done
DataOf(rs) == LET ds == SelectSeq(rs, IsData) IN [i \in 1..Len(ds) |-> ds[i].value]
InBacklog(d) == \E i \in 1..Len(backlog) : backlog[i].deferred = d

\* C22: a blocked consumer and a non-empty backlog never coexist; every value
\* given to write or close is, once and in order, either with the consumer
\* or in the backlog; the Deferred of an entry is unresolved while the entry
\* is in the backlog and resolved exactly once after, and it is resolved in
\* the step in which the consumer shifts that entry.
C22_MailboxInvariant ==
  /\ [](blockedOn => (backlog = <<>> /\ cpc = "blocked"))
  /\ [](/\ DataOf(Mailbox) = written
        /\ Len(SelectSeq(Mailbox, IsEnd)) = Len(closeProm))
  /\ [](/\ \A i, j \in 1..Len(backlog) :
             backlog[i].deferred = backlog[j].deferred => i = j
        /\ \A d \in 1..Len(deferreds) :
             deferreds[d].resolves = IF InBacklog(d) THEN 0 ELSE 1)
  /\ [][\A d \in 1..Len(deferreds) :
         (deferreds'[d].resolves # deferreds[d].resolves) =>
           /\ backlog # <<>>
           /\ Head(backlog).deferred = d
           /\ backlog' = Tail(backlog)
           /\ pulled' = Append(pulled, Head(backlog).value)]_vars

C22_Witness ==
  /\ Len(deferreds) < Len(Mailbox)
  /\ \E d \in 1..Len(deferreds) : deferreds[d].resolves = 1
  /\ Len(backlog) >= 2
  /\ closed
  /\ Len(pulled) >= 2

\* C17: with a producer that follows the Transform protocol, the backlog
\* never holds more than one data chunk that was not delivered.
C17_BoundedBacklog == BacklogItems <= 1

\* C18: pipeStreams of a list whose flattening is empty throws; otherwise it
\* returns the last stream of the flattened list and has piped each stream of
\* it into the next one, in order, and nothing else (no pipe for one stream).
C18_PipeStreamsComposition ==
  pipeResult.called =>
    LET flat == Concat(streamsArg)
    IN IF flat = <<>>
         THEN pipeResult.threw
         ELSE /\ ~pipeResult.threw
              /\ pipeResult.ret = flat[Len(flat)]
              /\ pipeResult.pipes = [i \in 1..(Len(flat) - 1) |-> <<flat[i], flat[i + 1]>>]

C18_Witness ==
  /\ pipeResult.called
  /\ ~pipeResult.threw
  /\ Len(pipeResult.pipes) >= 2
  /\ \E i \in 1..Len(streamsArg) : streamsArg[i].arr
  /\ pipeResult.ret # pipeResult.pipes[1][1]

\* C19: in a build started by BuildCommand.run, PrefetchTransform is never a
\* stage of the bundled branch, and it is a stage of the unbundled branch,
\* between the fork and dest, exactly when --insert-prefetch-links was given.
C19_PrefetchPlacement ==
  branchStages.built =>
    /\ \A i \in 1..Len(branchStages.bundled) : branchStages.bundled[i] # "PrefetchTransform"
    /\ branchStages.unbundled =
         IF Truthy(GetField(cliOptions, "insert-prefetch-links"))
           THEN <<"forkStream", "PrefetchTransform", "dest">>
           ELSE <<"forkStream", "dest">>

\* C20: once _transformIter has returned without having obtained the end
\* marker, no _flush ever calls back; a _flush that called back means the
\* transform consumed its whole input and returned.
EarlyReturned == cpc \in {"returned", "done"} /\ ~EndObserved

C20_EarlyReturnNeverFlushes ==
  /\ [](EarlyReturned => ~FlushedOk)
  /\ [](FlushedOk => EndObserved)
  /\ [][EarlyReturned => EarlyReturned']_vars

C20_Witness ==
  /\ EarlyReturned
  /\ writingFinished
  /\ written # <<>>
  /\ Len(flushPc) > 0
  /\ flushPc[1] = "awaitClose"
====
